---- MODULE Spec2Model ----
(***************************************************************************)
(* The chat page of chat-any-model: the send handler (handleSend), the     *)
(* credential dialog (handleKeySave, onOpenChange) and the two timers, in  *)
(* both variants of the page that the repository holds:                    *)
(*   "manual"  src/unnamed/part_000  (a saved key waits for a new submit)  *)
(*   "retry"   src/unnamed/part_001  (a saved key re-sends after 100 ms)   *)
(*                                                                         *)
(* A string is a sequence of one-character strings, so that trim() and     *)
(* concatenation are computed.  null and the fixed error text are          *)
(* one-element sequences holding a token that is no character.             *)
(*                                                                         *)
(* A handler reads the state of the render it was created in.  A handler   *)
(* run by a user event belongs to the current render; the handleSend that  *)
(* handleKeySave hands to setTimeout belongs to the render of the save,    *)
(* so it is kept in the timer as a Closure.  Message objects are shared    *)
(* between array copies and mutated in place by the stream, so arrays are  *)
(* sequences of references into heap.                                      *)
(*                                                                         *)
(* No handler tests showApiKeyModal, so the page's events are possible     *)
(* here while the dialog is open; the dialog's own events need it open.    *)
(* event is the only variable that is not program state: each step writes  *)
(* to it what a handler reported (the path handleSend or handleKeySave     *)
(* took, the call made, the end of a stream, a re-prompt) and every other  *)
(* step clears it.                                                         *)
(*                                                                         *)
(* Spec is the page with every event of the user.  RaceSpec is part_001    *)
(* from an empty localStorage with a user who stays on one provider and    *)
(* has two different drafts; its behaviours are behaviours of the page.    *)
(***************************************************************************)
EXTENDS Naturals, Sequences, FiniteSets

VARIABLES
    variant,          \* which page file runs
    mounted,          \* the load effect has run
    message,          \* useState: the draft text
    messages,         \* useState: the transcript, references into heap
    heap,             \* the Message objects ever created
    apiKeys,          \* useState: provider -> key or null
    storage,          \* localStorage: ai_api_key_<provider>
    showApiKeyModal,  \* useState
    tempApiKey,       \* useState: the dialog's input
    selectedProvider, \* useState
    modalProvider,    \* useState
    isProcessingRef,  \* useRef
    isProcessing,     \* useState (part_000 only)
    inflight,         \* handleSend invocations suspended at an await
    timers,           \* pending setTimeout callbacks, in scheduling order
    calls,            \* number of streamText calls made
    haste,            \* user events since a resend timer was last set
    event             \* what the last step reported: the path a handler took,
                      \* the call it made, the end of a stream, a re-prompt;
                      \* else none

vars == <<variant, mounted, message, messages, heap, apiKeys, storage,
          showApiKeyModal, tempApiKey, selectedProvider, modalProvider,
          isProcessingRef, isProcessing, inflight, timers, calls, haste,
          event>>

\* ------------------------------------------------------------------ bounds

\* streamText calls in a session
MaxSends == 2
\* text parts in one stream
MaxChunks == 2
\* timers that may be pending when a save sets a resend timer
MaxTimers == 1
\* user events between a save and its resend timer
MaxHaste == 2

\* ------------------------------------------------------------------ values

Variants == {"manual", "retry"}

Providers == {"openai", "gemini", "xai"}

NULL == <<"null">>

ErrorText == <<"An error occurred. Your API key might be invalid or the model service is down.">>

Whitespace == {" "}

\* what the user can type into the message box
Texts == {<<>>, <<" ">>, <<" ", "a">>}

\* what the user can type into the key input
KeyTexts == {<<>>, <<" ">>, <<" ", "k">>}

\* the text parts a stream delivers, in this order; it may close or throw
\* after any number of them
Parts == <<"x", "y", "z", "w">>

Part(n) == <<Parts[((n - 1) % Len(Parts)) + 1]>>

\* ------------------------------------------------------------------ strings

RECURSIVE TrimStart(_)
TrimStart(s) ==
    IF s # <<>> /\ Head(s) \in Whitespace THEN TrimStart(Tail(s)) ELSE s

RECURSIVE TrimEnd(_)
TrimEnd(s) ==
    IF s # <<>> /\ s[Len(s)] \in Whitespace
    THEN TrimEnd(SubSeq(s, 1, Len(s) - 1))
    ELSE s

Trim(s) == TrimEnd(TrimStart(s))

\* !s for a string or null
Falsy(s) == s = NULL \/ s = <<>>

RemoveAt(q, i) == SubSeq(q, 1, i - 1) \o SubSeq(q, i + 1, Len(q))

\* ------------------------------------------------------------------ views

\* the Message values an array of references shows
Deref(h, refs) == [i \in 1..Len(refs) |-> h[refs[i]]]

Transcript == Deref(heap, messages)

\* the render a user event's handler belongs to
Closure ==
    [message |-> message, messages |-> messages,
     selectedProvider |-> selectedProvider,
     currentApiKey |-> apiKeys[selectedProvider]]

NoEvent == [op |-> "none"]

\* ------------------------------------------------------------------ user events

ResendPending(q) == \E i \in DOMAIN q : q[i].kind = "resend"

\* The resend timer runs 100 ms after the save: at most MaxHaste user events
\* fit between the two.  Stream events and the other timers are not limited.
UserMayAct == mounted /\ (ResendPending(timers) => haste < MaxHaste)

Hasten == IF ResendPending(timers) THEN haste + 1 ELSE 0

\* ------------------------------------------------------------------ Init

Init ==
    /\ variant \in Variants
    /\ mounted = FALSE
    /\ message = <<>>
    /\ messages = <<>>
    /\ heap = <<>>
    /\ apiKeys = [p \in Providers |-> NULL]
    /\ storage \in [Providers -> {NULL} \cup {k \in KeyTexts : Trim(k) # <<>>}]
    /\ showApiKeyModal = FALSE
    /\ tempApiKey = <<>>
    /\ selectedProvider = "openai"
    /\ modalProvider = "openai"
    /\ isProcessingRef = FALSE
    /\ isProcessing = FALSE
    /\ inflight = <<>>
    /\ timers = <<>>
    /\ calls = 0
    /\ haste = 0
    /\ event = NoEvent

\* (mutation) the load effect reads nothing
StoredKeysNone == [p \in Providers |-> NULL]

\* const storedKeys = { openai: localStorage.getItem(...), ... }
StoredKeys == [p \in Providers |-> storage[p]]

\* the load effect
Mount ==
    /\ ~mounted
    /\ mounted' = TRUE
    /\ apiKeys' = StoredKeys
    /\ event' = NoEvent
    /\ UNCHANGED <<variant, message, messages, heap, storage, showApiKeyModal,
                   tempApiKey, selectedProvider, modalProvider,
                   isProcessingRef, isProcessing, inflight, timers, calls, haste>>

\* ------------------------------------------------------------------ handleSend

\* the fixed model of each provider
ModelOf(p) ==
    CASE p = "openai" -> "gpt-5-nano"
      [] p = "gemini" -> "gemini-2.5-flash"
      [] p = "xai" -> "grok-beta"

\* (mutation) the guard forgets the processing flag
SendRejectedIgnoringRef(c) == Trim(c.message) = <<>>

\* (mutation) the guard forgets to trim the draft
SendRejectedUntrimmed(c) == c.message = <<>> \/ isProcessingRef

\* if (!message.trim() || isProcessingRef.current) return;
SendRejected(c) == Trim(c.message) = <<>> \/ isProcessingRef

\* const currentApiKey = apiKeys[selectedProvider]; if (!currentApiKey) ...
CredentialMissing(c) == Falsy(c.currentApiKey)

\* const newMessage = { role: "user", content: message };
NewMessage(c) == [role |-> "user", content |-> c.message]

\* (mutation) the placeholder is appended with the user's role
PlaceholderAsUser == [role |-> "user", content |-> <<>>]

\* the assistant placeholder
Placeholder == [role |-> "assistant", content |-> <<>>]

\* const newMessagesHistory = [...messages, newMessage], as streamText reads it
NewMessagesHistory(c) == Deref(heap, c.messages) \o <<NewMessage(c)>>

\* createX({ apiKey }), provider.chat(model), streamText({ model, messages })
StreamTextCall(c) ==
    [provider |-> c.selectedProvider,
     model |-> ModelOf(c.selectedProvider),
     apiKey |-> c.currentApiKey,
     messages |-> NewMessagesHistory(c)]

\* the invocation suspended at await streamText(...)
Activation(c) ==
    [selectedProvider |-> c.selectedProvider,
     currentApiKey |-> c.currentApiKey,
     phase |-> "dispatching",
     fullResponse |-> <<>>,
     delivered |-> <<>>]

\* handleSend of the render c, up to its first await; timers are the caller's
HandleSend(c, by) ==
    IF SendRejected(c) THEN
        /\ event' = [op |-> "handleSend", by |-> by, outcome |-> "ignored",
                     text |-> c.message, provider |-> c.selectedProvider]
        /\ UNCHANGED <<variant, mounted, message, messages, heap, apiKeys,
                       storage, showApiKeyModal, tempApiKey, selectedProvider,
                       modalProvider, isProcessingRef, isProcessing, inflight,
                       calls>>
    ELSE IF CredentialMissing(c) THEN
        /\ modalProvider' = c.selectedProvider
        /\ tempApiKey' = IF variant = "manual" THEN <<>> ELSE tempApiKey
        /\ showApiKeyModal' = TRUE
        /\ event' = [op |-> "handleSend", by |-> by,
                     outcome |-> "credentialRequired",
                     text |-> c.message, provider |-> c.selectedProvider]
        /\ UNCHANGED <<variant, mounted, message, messages, heap, apiKeys,
                       storage, selectedProvider, isProcessingRef,
                       isProcessing, inflight, calls>>
    ELSE
        /\ calls < MaxSends
        /\ isProcessingRef' = TRUE
        /\ isProcessing' = (variant = "manual")
        /\ heap' = heap \o <<NewMessage(c), Placeholder>>
        /\ messages' = c.messages \o <<Len(heap) + 1, Len(heap) + 2>>
        /\ message' = <<>>
        /\ inflight' = Append(inflight, Activation(c))
        /\ calls' = calls + 1
        /\ event' = [op |-> "handleSend", by |-> by, outcome |-> "dispatched",
                     text |-> c.message, provider |-> c.selectedProvider,
                     call |-> StreamTextCall(c)]
        /\ UNCHANGED <<variant, mounted, apiKeys, storage, showApiKeyModal,
                       tempApiKey, selectedProvider, modalProvider>>

\* Enter in the message box, or the send button
UserSubmit ==
    /\ UserMayAct
    /\ haste' = Hasten
    /\ HandleSend(Closure, "user")
    /\ UNCHANGED timers

\* ------------------------------------------------------------------ the stream

\* (mutation) the updater indexes the entry before the last
SetLastContentOffByOne(h, refs, text) ==
    [h EXCEPT ![refs[Len(refs) - 1]].content = text]

\* setMessages((prev) => { ...; lastMessage.content = text; ... })
SetLastContent(h, refs, text) ==
    [h EXCEPT ![refs[Len(refs)]].content = text]

\* (mutation) the part replaces the running text
AppendPartReplacing(fullResponse, textPart) == textPart

\* (mutation) the part goes in front of the running text
AppendPartInFront(fullResponse, textPart) == textPart \o fullResponse

\* fullResponse += textPart
AppendPart(fullResponse, textPart) == fullResponse \o textPart

\* await streamText(...) returns the stream
StreamOpen(i) ==
    /\ inflight[i].phase = "dispatching"
    /\ inflight' = [inflight EXCEPT ![i].phase = "streaming"]
    /\ event' = NoEvent
    /\ UNCHANGED <<variant, mounted, message, messages, heap, apiKeys,
                   storage, showApiKeyModal, tempApiKey, selectedProvider,
                   modalProvider, isProcessingRef, isProcessing, timers,
                   calls, haste>>

\* one turn of for await (const textPart of textStream)
StreamChunk(i) ==
    /\ inflight[i].phase = "streaming"
    /\ Len(inflight[i].delivered) < MaxChunks
    /\ messages # <<>>
    /\ LET textPart == Part(Len(inflight[i].delivered) + 1)
           full == AppendPart(inflight[i].fullResponse, textPart) IN
        /\ inflight' = [inflight EXCEPT
                            ![i].fullResponse = full,
                            ![i].delivered = Append(@, textPart)]
        /\ heap' = SetLastContent(heap, messages, full)
    /\ event' = NoEvent
    /\ UNCHANGED <<variant, mounted, message, messages, apiKeys, storage,
                   showApiKeyModal, tempApiKey, selectedProvider,
                   modalProvider, isProcessingRef, isProcessing, timers,
                   calls, haste>>

\* (mutation) the finally block leaves the flags set
FinallySkipped == UNCHANGED <<isProcessingRef, isProcessing>>

\* finally { isProcessingRef.current = false; setIsProcessing(false); }
Finally ==
    /\ isProcessingRef' = FALSE
    /\ isProcessing' = FALSE

\* the stream closes: the loop ends, finally runs
StreamDone(i) ==
    /\ inflight[i].phase = "streaming"
    /\ inflight' = RemoveAt(inflight, i)
    /\ Finally
    /\ event' = [op |-> "settled",
                 delivered |-> inflight[i].delivered,
                 msg |-> IF messages = <<>> THEN 0 ELSE messages[Len(messages)],
                 provider |-> inflight[i].selectedProvider]
    /\ UNCHANGED <<variant, mounted, message, messages, heap, apiKeys,
                   storage, showApiKeyModal, tempApiKey, selectedProvider,
                   modalProvider, timers, calls, haste>>

\* (mutation) the failure path leaves the key in place
ClearKeySkipped(keys, p) == keys

\* (mutation) the failure path clears the provider selected when it runs
ClearKeyOfSelected(keys, p) == [keys EXCEPT ![selectedProvider] = NULL]

\* setApiKeys((prev) => ({ ...prev, [selectedProvider]: null })), and removeItem
ClearKey(keys, p) == [keys EXCEPT ![p] = NULL]

\* (mutation) the timer targets the provider selected when the send fails
RepromptForSelected(p) == [kind |-> "reprompt", selectedProvider |-> selectedProvider]

\* the setTimeout of the catch block
Reprompt(p) == [kind |-> "reprompt", selectedProvider |-> p]

\* streamText or the stream throws: catch, then finally
StreamFail(i) ==
    /\ messages # <<>>
    /\ heap' = SetLastContent(heap, messages, ErrorText)
    /\ storage' = ClearKey(storage, inflight[i].selectedProvider)
    /\ apiKeys' = ClearKey(apiKeys, inflight[i].selectedProvider)
    /\ timers' = Append(timers, Reprompt(inflight[i].selectedProvider))
    /\ inflight' = RemoveAt(inflight, i)
    /\ Finally
    /\ event' = [op |-> "failed",
                 delivered |-> inflight[i].delivered,
                 msg |-> messages[Len(messages)],
                 provider |-> inflight[i].selectedProvider]
    /\ UNCHANGED <<variant, mounted, message, messages, showApiKeyModal,
                   tempApiKey, selectedProvider, modalProvider, calls, haste>>

\* ------------------------------------------------------------------ the dialog

\* setTimeout(() => { handleSend(); }, 100): the handleSend of this render
Resend(c) == [kind |-> "resend", closure |-> c]

\* (mutation) the key is trimmed before it is stored
SetKeyTrimmed(keys, p, key) == [keys EXCEPT ![p] = Trim(key)]

\* { ...apiKeys, [modalProvider]: tempApiKey }, and setItem
SetKey(keys, p, key) == [keys EXCEPT ![p] = key]

\* (mutation) both pages set the resend timer
ResendScheduledInBoth == Trim(message) # <<>>

\* if (message.trim()) setTimeout(...), in part_001 only
ResendScheduled == variant = "retry" /\ Trim(message) # <<>>

\* (mutation) the guard forgets to trim the input
KeyRejectedUntrimmed(k) == k = <<>>

\* (mutation) the guard is gone
KeyRejectedNever(k) == FALSE

\* if (!tempApiKey.trim()) return;
KeyRejected(k) == Trim(k) = <<>>

\* Save and Continue, or Enter in the key input
HandleKeySave ==
    /\ UserMayAct
    /\ showApiKeyModal
    /\ IF KeyRejected(tempApiKey) THEN
           /\ event' = [op |-> "handleKeySave", outcome |-> "invalid"]
           /\ haste' = Hasten
           /\ UNCHANGED <<variant, mounted, message, messages, heap, apiKeys,
                          storage, showApiKeyModal, tempApiKey,
                          selectedProvider, modalProvider, isProcessingRef,
                          isProcessing, inflight, timers, calls>>
       ELSE
           /\ event' = [op |-> "handleKeySave", outcome |-> "saved",
                        provider |-> modalProvider, key |-> tempApiKey]
           /\ apiKeys' = SetKey(apiKeys, modalProvider, tempApiKey)
           /\ storage' = SetKey(storage, modalProvider, tempApiKey)
           /\ showApiKeyModal' = FALSE
           /\ tempApiKey' = <<>>
           /\ IF ResendScheduled
              THEN /\ Len(timers) < MaxTimers
                   /\ timers' = Append(timers, Resend(Closure))
                   /\ haste' = 0
              ELSE /\ haste' = Hasten
                   /\ UNCHANGED timers
           /\ UNCHANGED <<variant, mounted, message, messages, heap,
                          selectedProvider, modalProvider, isProcessingRef,
                          isProcessing, inflight, calls>>

\* onOpenChange(false): Escape, the close button, a click outside
DismissModal ==
    /\ UserMayAct
    /\ haste' = Hasten
    /\ showApiKeyModal
    /\ showApiKeyModal' = FALSE
    /\ event' = NoEvent
    /\ UNCHANGED <<variant, mounted, message, messages, heap, apiKeys,
                   storage, tempApiKey, selectedProvider, modalProvider,
                   isProcessingRef, isProcessing, inflight, timers, calls>>

\* onChange of the key input
TypeKey(k) ==
    /\ UserMayAct
    /\ haste' = Hasten
    /\ showApiKeyModal
    /\ k # tempApiKey
    /\ tempApiKey' = k
    /\ event' = NoEvent
    /\ UNCHANGED <<variant, mounted, message, messages, heap, apiKeys,
                   storage, showApiKeyModal, selectedProvider, modalProvider,
                   isProcessingRef, isProcessing, inflight, timers, calls>>

\* onValueChange of the dialog's provider select
SelectModalProvider(p) ==
    /\ UserMayAct
    /\ haste' = Hasten
    /\ showApiKeyModal
    /\ p # modalProvider
    /\ modalProvider' = p
    /\ event' = NoEvent
    /\ UNCHANGED <<variant, mounted, message, messages, heap, apiKeys,
                   storage, showApiKeyModal, tempApiKey, selectedProvider,
                   isProcessingRef, isProcessing, inflight, timers, calls>>

\* ------------------------------------------------------------------ the page

\* onChange of the message box
TypeMessage(t) ==
    /\ UserMayAct
    /\ haste' = Hasten
    /\ t # message
    /\ message' = t
    /\ event' = NoEvent
    /\ UNCHANGED <<variant, mounted, messages, heap, apiKeys, storage,
                   showApiKeyModal, tempApiKey, selectedProvider,
                   modalProvider, isProcessingRef, isProcessing, inflight,
                   timers, calls>>

\* onValueChange of the model selector
SelectProvider(p) ==
    /\ UserMayAct
    /\ haste' = Hasten
    /\ p # selectedProvider
    /\ selectedProvider' = p
    /\ event' = NoEvent
    /\ UNCHANGED <<variant, mounted, message, messages, heap, apiKeys,
                   storage, showApiKeyModal, tempApiKey, modalProvider,
                   isProcessingRef, isProcessing, inflight, timers, calls>>

\* ------------------------------------------------------------------ timers

RepromptDelay == 1000

ResendDelay == 100

Delay(t) == IF t.kind = "reprompt" THEN RepromptDelay ELSE ResendDelay

\* a timer set earlier with no longer a delay fires first
CanFire(i) == \A j \in 1..(i - 1) : Delay(timers[j]) > Delay(timers[i])

\* setModalProvider(selectedProvider); setShowApiKeyModal(true);
RepromptFire(i) ==
    /\ timers[i].kind = "reprompt"
    /\ CanFire(i)
    /\ modalProvider' = timers[i].selectedProvider
    /\ showApiKeyModal' = TRUE
    /\ timers' = RemoveAt(timers, i)
    /\ event' = [op |-> "reprompt", provider |-> timers[i].selectedProvider]
    /\ UNCHANGED <<variant, mounted, message, messages, heap, apiKeys,
                   storage, tempApiKey, selectedProvider, isProcessingRef,
                   isProcessing, inflight, calls, haste>>

\* the handleSend of the render of the save runs
ResendFire(i) ==
    /\ timers[i].kind = "resend"
    /\ CanFire(i)
    /\ HandleSend(timers[i].closure, "timer")
    /\ timers' = RemoveAt(timers, i)
    /\ haste' = IF ResendPending(timers') THEN haste ELSE 0

\* ------------------------------------------------------------------ Next

Next ==
    \/ Mount
    \/ UserSubmit
    \/ \E t \in Texts : TypeMessage(t)
    \/ \E p \in Providers : SelectProvider(p)
    \/ HandleKeySave
    \/ DismissModal
    \/ \E k \in KeyTexts : TypeKey(k)
    \/ \E p \in Providers : SelectModalProvider(p)
    \/ \E i \in DOMAIN inflight : StreamOpen(i)
    \/ \E i \in DOMAIN inflight : StreamChunk(i)
    \/ \E i \in DOMAIN inflight : StreamDone(i)
    \/ \E i \in DOMAIN inflight : StreamFail(i)
    \/ \E i \in DOMAIN timers : RepromptFire(i)
    \/ \E i \in DOMAIN timers : ResendFire(i)

Spec == Init /\ [][Next]_vars

\* ------------------------------------------------------------------ the resend race

\* The page of part_001 from an empty localStorage, with a user who stays on
\* one provider and has two drafts to tell apart: what the resend timer does
\* to a transcript that moved on since the save.

\* two drafts that differ after trim()
RaceTexts == {<<" ", "a">>, <<"b">>}

RaceInit ==
    /\ Init
    /\ variant = "retry"
    /\ storage = [p \in Providers |-> NULL]

RaceNext ==
    \/ Mount
    \/ UserSubmit
    \/ \E t \in RaceTexts : TypeMessage(t)
    \/ HandleKeySave
    \/ DismissModal
    \/ \E k \in KeyTexts : TypeKey(k)
    \/ \E i \in DOMAIN inflight : StreamOpen(i)
    \/ \E i \in DOMAIN inflight : StreamChunk(i)
    \/ \E i \in DOMAIN inflight : StreamDone(i)
    \/ \E i \in DOMAIN inflight : StreamFail(i)
    \/ \E i \in DOMAIN timers : RepromptFire(i)
    \/ \E i \in DOMAIN timers : ResendFire(i)

RaceSpec == RaceInit /\ [][RaceNext]_vars

\* ------------------------------------------------------------------ claims

\* the requests that are open: dispatching or streaming
OpenRequests ==
    {i \in DOMAIN inflight : inflight[i].phase \in {"dispatching", "streaming"}}

LastRef(refs) == refs[Len(refs)]

\* c1 \o c2 \o ... \o cn
RECURSIVE Flatten(_)
Flatten(ss) == IF ss = <<>> THEN <<>> ELSE Head(ss) \o Flatten(Tail(ss))

IsPrefix(s, t) == Len(s) <= Len(t) /\ SubSeq(t, 1, Len(s)) = s

\* a step is a handleSend, started by one of `by`, that passed the first
\* guard: its text is not blank and no send was in flight
Accepted(by) ==
    /\ event'.op = "handleSend"
    /\ event'.by \in by
    /\ ~isProcessingRef
    /\ Trim(event'.text) # <<>>

\* the active provider, as the page shows it, has no key
ActiveCredentialAbsent == Falsy(apiKeys[selectedProvider])

CredentialRequiredRaised(by) ==
    (Accepted(by) /\ ActiveCredentialAbsent) =>
        /\ event'.outcome = "credentialRequired"
        /\ showApiKeyModal'
        /\ modalProvider' = selectedProvider
        /\ UNCHANGED <<messages, heap, inflight, calls, isProcessingRef>>

TwoEntriesAppended(by) ==
    (Accepted(by) /\ ~ActiveCredentialAbsent) =>
        /\ event'.outcome = "dispatched"
        /\ Transcript' = Transcript \o
               <<[role |-> "user", content |-> event'.text], Placeholder>>
        /\ Len(inflight') = Len(inflight) + 1
        /\ inflight'[Len(inflight')].phase = "dispatching"

ContextIsTranscript(by) ==
    (event'.op = "handleSend" /\ event'.by \in by
        /\ event'.outcome = "dispatched") =>
        /\ event'.call.messages = Transcript \o
               <<[role |-> "user", content |-> event'.text]>>
        /\ Transcript' = event'.call.messages \o <<Placeholder>>

\* C1: in every reachable state, whatever the interleaving of submits,
\* provider selection, saves, dismissals, timers and stream events, at most
\* one streaming request is open (dispatching or streaming).
C1_AtMostOneOpenRequest == Cardinality(OpenRequests) <= 1

\* C1 witness: a request is open and the resend timer has just run handleSend
\* against it and been turned away.
C1_Witness ==
    /\ Cardinality(OpenRequests) = 1
    /\ event.op = "handleSend"
    /\ event.by = "timer"
    /\ event.outcome = "ignored"

\* C2: a handleSend that runs while the processing flag is set, whether the
\* user or the resend timer started it, takes the ignored path: transcript,
\* message objects, open requests, call count, dialog, draft and credentials
\* stay as they were and no timer is added.
C2_SubmitWhilePendingIsNoOp ==
    [][(isProcessingRef /\ event'.op = "handleSend") =>
        /\ event'.outcome = "ignored"
        /\ UNCHANGED <<messages, heap, inflight, calls, showApiKeyModal,
                       modalProvider, tempApiKey, message, apiKeys, storage,
                       selectedProvider, isProcessingRef, isProcessing>>
        /\ Len(timers') <= Len(timers)]_vars

\* C2 witness: the user has submitted a non-blank draft while a request was
\* streaming, and the request is still streaming.
C2_Witness ==
    /\ isProcessingRef
    /\ event.op = "handleSend"
    /\ event.by = "user"
    /\ event.outcome = "ignored"
    /\ Trim(event.text) # <<>>
    /\ \E i \in DOMAIN inflight : inflight[i].phase = "streaming"

\* C3: a handleSend whose text is empty or only whitespace takes the ignored
\* path in every state: transcript, processing flag, credentials, dialog and
\* draft stay as they were and no call is made.
C3_BlankSubmitIsNoOp ==
    [][(event'.op = "handleSend" /\ Trim(event'.text) = <<>>) =>
        /\ event'.outcome = "ignored"
        /\ UNCHANGED <<messages, heap, inflight, calls, showApiKeyModal,
                       modalProvider, tempApiKey, message, apiKeys, storage,
                       selectedProvider, isProcessingRef, isProcessing,
                       timers>>]_vars

\* C3 witness: a whitespace-only draft was submitted while idle with no
\* credential for the active provider, and the dialog did not open.
C3_Witness ==
    /\ event.op = "handleSend"
    /\ event.outcome = "ignored"
    /\ event.text = <<" ">>
    /\ ~isProcessingRef
    /\ apiKeys[selectedProvider] = NULL
    /\ ~showApiKeyModal

\* C4: when a handleSend passes the first guard (text not blank, no send in
\* flight) and the active provider has no key, the dialog opens with the
\* active provider as its target, the transcript and the processing flag stay
\* as they were and no call is made.
C4_CredentialRequiredForActiveProvider ==
    [][CredentialRequiredRaised({"user", "timer"})]_vars

\* The part of C4 that holds: the same, for the handleSend a user event runs.
C4_UserSubmitRaisesCredentialRequired ==
    [][CredentialRequiredRaised({"user"})]_vars

\* C5: when a handleSend passes the first guard and the active provider has
\* a key, the transcript gains exactly a user message with the text and an
\* empty assistant message, in place while the call is still dispatching.
C5_SubmitAppendsUserAndPlaceholder ==
    [][TwoEntriesAppended({"user", "timer"})]_vars

\* The part of C5 that holds: the same, for the handleSend a user event runs.
C5_UserSubmitAppendsUserAndPlaceholder ==
    [][TwoEntriesAppended({"user"})]_vars

\* C6: the messages given to every streamText call are the transcript as it
\* stood before the submit, in order, followed by the new user message; the
\* placeholder is not among them and follows them in the new transcript.
C6_ContextIsTranscriptWithoutPlaceholder ==
    [][ContextIsTranscript({"user", "timer"})]_vars

\* The part of C6 that holds: the same, for the handleSend a user event runs.
C6_UserSubmitContextIsTranscript ==
    [][ContextIsTranscript({"user"})]_vars

\* C7: when a stream closes without an error after delivering parts
\* c1 .. cn, the content of the assistant message is c1 \o ... \o cn.
C7_FinalContentIsConcatenation ==
    event.op = "settled" => heap[event.msg].content = Flatten(event.delivered)

\* C7 witness: a stream has closed after two parts.
C7_Witness ==
    /\ event.op = "settled"
    /\ Len(event.delivered) = 2
    /\ Transcript[Len(Transcript)].content = <<"x", "y">>

\* C8: while a send stays in flight, each new content of the last transcript
\* entry has the previous content as a prefix.
C8_ContentGrowsMonotonically ==
    [][(inflight # <<>> /\ inflight' # <<>>) =>
        /\ messages' = messages
        /\ IsPrefix(heap[LastRef(messages)].content,
                    heap'[LastRef(messages')].content)]_vars

\* C8 witness: the in-flight message has grown twice.
C8_Witness ==
    /\ inflight # <<>>
    /\ Len(inflight[1].delivered) = 2
    /\ heap[LastRef(messages)].content = <<"x", "y">>

\* C9: when a send fails, also after parts were appended, the last transcript
\* entry is the assistant message and its content becomes exactly the error
\* text; no entry is added or removed and no other entry changes.
C9_FailureReplacesLastContent ==
    [][event'.op = "failed" =>
        /\ messages' = messages
        /\ Len(heap') = Len(heap)
        /\ heap'[LastRef(messages)] = [role |-> "assistant", content |-> ErrorText]
        /\ \A r \in DOMAIN heap : r # LastRef(messages) => heap'[r] = heap[r]]_vars

\* C9 witness: a stream failed after delivering a part, in a transcript that
\* holds an earlier exchange.
C9_Witness ==
    /\ event.op = "failed"
    /\ event.delivered # <<>>
    /\ Len(messages) = 4
    /\ Transcript[4].content = ErrorText

\* C10: a failed send clears the key of the provider the request was sent
\* to, in apiKeys and in storage, and ends with the processing flag off.
C10_FailureClearsCredential ==
    [][event'.op = "failed" =>
        \E i \in DOMAIN inflight :
            /\ inflight' = RemoveAt(inflight, i)
            /\ event'.provider = inflight[i].selectedProvider
            /\ apiKeys'[inflight[i].selectedProvider] = NULL
            /\ storage'[inflight[i].selectedProvider] = NULL
            /\ ~isProcessingRef'
            /\ ~isProcessing']_vars

\* C10 witness: a send failed before any part arrived and the key it was sent
\* with is gone from memory and from storage.
C10_Witness ==
    /\ event.op = "failed"
    /\ event.delivered = <<>>
    /\ apiKeys[event.provider] = NULL
    /\ storage[event.provider] = NULL
    /\ ~isProcessingRef

\* the re-prompt timers pending for provider p
RepromptsFor(q, p) ==
    Cardinality({i \in DOMAIN q :
                    q[i].kind = "reprompt" /\ q[i].selectedProvider = p})

\* C11: a failed send leaves the error text and the cleared key in place
\* and, in the same step, sets one re-prompt timer for the provider the
\* request was sent to, without opening the dialog yet; a re-prompt timer is
\* set by nothing else, and it leaves the queue only by running, which opens
\* the dialog with that provider as its target.
C11_FailureRepromptsSameProvider ==
    [][/\ event'.op = "failed" =>
            /\ heap'[LastRef(messages')].content = ErrorText
            /\ apiKeys'[event'.provider] = NULL
            /\ storage'[event'.provider] = NULL
            /\ timers' = Append(timers, [kind |-> "reprompt",
                                         selectedProvider |-> event'.provider])
            /\ UNCHANGED <<showApiKeyModal, modalProvider>>
       /\ \A p \in Providers :
            /\ RepromptsFor(timers', p) > RepromptsFor(timers, p) =>
                   (event'.op = "failed" /\ event'.provider = p)
            /\ RepromptsFor(timers', p) < RepromptsFor(timers, p) =>
                   /\ event'.op = "reprompt"
                   /\ event'.provider = p
                   /\ showApiKeyModal'
                   /\ modalProvider' = p]_vars

\* C11 witness: the re-prompt timer has run after the user moved to another
\* provider: the dialog is open for the provider of the failed send, whose
\* key is gone, and the error text is the last entry.
C11_Witness ==
    /\ event.op = "reprompt"
    /\ showApiKeyModal
    /\ modalProvider = event.provider
    /\ selectedProvider # event.provider
    /\ apiKeys[event.provider] = NULL
    /\ messages # <<>>
    /\ heap[LastRef(messages)].content = ErrorText

ClearedCredentialBlocksCalls(by) ==
    (event'.op = "handleSend" /\ event'.by \in by
        /\ apiKeys[event'.provider] = NULL) =>
        /\ event'.outcome # "dispatched"
        /\ UNCHANGED <<calls, inflight, messages, heap>>
        /\ Accepted(by) => event'.outcome = "credentialRequired"

\* C12: while a provider's key is null (only the failure path sets a key
\* back to null), a handleSend for that provider, run by the user or by the
\* resend timer, makes no call, and raises CredentialRequired when it passes
\* the first guard.
C12_ClearedCredentialBlocksCalls ==
    [][ClearedCredentialBlocksCalls({"user", "timer"})]_vars

\* The part of C12 that holds: the same, for the handleSend a user event runs.
C12_UserSubmitBlockedByClearedCredential ==
    [][ClearedCredentialBlocksCalls({"user"})]_vars

\* C13: a handleKeySave with an input that is not blank stores exactly the
\* input, untrimmed, under the dialog's target provider in apiKeys and in
\* storage, leaves every other provider's key as it was, and closes the
\* dialog.
C13_SaveStoresInputForTarget ==
    [][(event'.op = "handleKeySave" /\ Trim(tempApiKey) # <<>>) =>
        /\ event'.outcome = "saved"
        /\ apiKeys'[modalProvider] = tempApiKey
        /\ storage'[modalProvider] = tempApiKey
        /\ \A p \in Providers \ {modalProvider} :
               apiKeys'[p] = apiKeys[p] /\ storage'[p] = storage[p]
        /\ ~showApiKeyModal']_vars

\* C13 witness: a key with a leading space was saved for a provider that is
\* not the active one, while another provider has none.
C13_Witness ==
    /\ event.op = "handleKeySave"
    /\ event.outcome = "saved"
    /\ event.key = <<" ", "k">>
    /\ event.provider # selectedProvider
    /\ apiKeys[event.provider] = <<" ", "k">>
    /\ storage[event.provider] = <<" ", "k">>
    /\ \E p \in Providers : apiKeys[p] = NULL
    /\ ~showApiKeyModal

\* C14: a handleKeySave with an empty or whitespace-only input is refused:
\* apiKeys and storage stay as they were, no timer is set, nothing is sent
\* and the dialog stays as it is.
C14_BlankSaveIsRefused ==
    [][(event'.op = "handleKeySave" /\ Trim(tempApiKey) = <<>>) =>
        /\ event'.outcome = "invalid"
        /\ UNCHANGED <<apiKeys, storage, timers, messages, heap, inflight,
                       calls, isProcessingRef, message, showApiKeyModal,
                       modalProvider, tempApiKey>>]_vars

\* C14 witness: in the retry variant, with a draft waiting, a whitespace-only
\* input was refused for a provider that has a key; no timer is pending.
C14_Witness ==
    /\ variant = "retry"
    /\ event.op = "handleKeySave"
    /\ event.outcome = "invalid"
    /\ tempApiKey = <<" ">>
    /\ apiKeys[modalProvider] # NULL
    /\ Trim(message) # <<>>
    /\ timers = <<>>

\* C15: in every reachable state each provider's key in apiKeys is null or a
\* string that is not empty.
C15_CredentialNeverEmpty ==
    \A p \in Providers : apiKeys[p] = NULL \/ Len(apiKeys[p]) > 0

\* C15 witness: an empty input was offered for a provider without a key and
\* the key is still null.
C15_Witness ==
    /\ event.op = "handleKeySave"
    /\ event.outcome = "invalid"
    /\ tempApiKey = <<>>
    /\ apiKeys[modalProvider] = NULL

\* C16: once the load effect has run, apiKeys equals storage for every
\* provider after every step, and a step changes either of them only when it
\* is a save or the failure of a send.
C16_MemoryMirrorsStorage ==
    [][/\ mounted' => apiKeys' = storage'
       /\ (mounted /\ (apiKeys' # apiKeys \/ storage' # storage)) =>
            \/ event'.op = "handleKeySave" /\ event'.outcome = "saved"
            \/ event'.op = "failed"]_vars

\* C16 witness: a send has failed while another provider keeps its key, and
\* memory and storage agree.
C16_Witness ==
    /\ mounted
    /\ event.op = "failed"
    /\ apiKeys = storage
    /\ apiKeys[event.provider] = NULL
    /\ \E p \in Providers : apiKeys[p] # NULL

\* the dialog is closed by onOpenChange, not by a save
Dismissed ==
    showApiKeyModal /\ ~showApiKeyModal' /\ event'.op # "handleKeySave"

\* the dialog goes from closed to open
Opened == ~showApiKeyModal /\ showApiKeyModal'

CancelKeepsStore ==
    Dismissed => UNCHANGED <<apiKeys, storage, timers, messages, heap,
                             inflight, calls, isProcessingRef, message>>

\* C17: dismissing the dialog closes it, leaves apiKeys and storage as they
\* were and sends nothing; and whenever the dialog opens, its input is empty.
C17_CancelDiscardsInput ==
    [][CancelKeepsStore /\ (Opened => tempApiKey' = <<>>)]_vars

\* The part of C17 that holds: dismissal changes neither store and resumes
\* no send.
C17_CancelKeepsStoreAndResumesNothing == [][CancelKeepsStore]_vars

\* C18: in the retry variant, when the resend timer runs right after a save
\* for the active provider, with no send in flight, the draft is dispatched:
\* the user message and the placeholder are appended and the call is opened
\* with the key just saved.
C18_SaveRetriesOriginalSend ==
    [][(/\ variant = "retry"
        /\ event.op = "handleKeySave"
        /\ event.outcome = "saved"
        /\ event.provider = selectedProvider
        /\ ~isProcessingRef
        /\ event'.op = "handleSend"
        /\ event'.by = "timer") =>
        /\ event'.outcome = "dispatched"
        /\ event'.call.apiKey = event.key
        /\ event'.call.provider = selectedProvider
        /\ Transcript' = Transcript \o
               <<[role |-> "user", content |-> message], Placeholder>>]_vars

AppendOnly ==
    /\ Len(Transcript') >= Len(Transcript)
    /\ \A i \in DOMAIN Transcript :
           i < Len(Transcript) => Transcript'[i] = Transcript[i]
    /\ Transcript # <<>> =>
           Transcript'[Len(Transcript)].role = Transcript[Len(Transcript)].role

\* C19: every step keeps every transcript entry but the last as it was, in
\* place, keeps the role of the last, and removes none.
C19_TranscriptAppendOnly == [][AppendOnly]_vars

\* The part of C19 that holds: the same, in the page without the resend timer.
C19_ManualTranscriptAppendOnly == [][variant = "manual" => AppendOnly]_vars

\* C20: the step in which a stream closes or fails ends with the processing
\* flags off and no request open; until then the flag stays set, no call is
\* made and the transcript keeps its entries; the flag is set exactly while a
\* request is open; and while it is off no existing message changes.
C20_PendingEndsWithTheStream ==
    [][/\ event'.op \in {"settled", "failed"} =>
            /\ isProcessingRef
            /\ ~isProcessingRef'
            /\ ~isProcessing'
            /\ inflight' = <<>>
       /\ (isProcessingRef /\ event'.op \notin {"settled", "failed"}) =>
            /\ isProcessingRef'
            /\ calls' = calls
            /\ inflight' # <<>>
            /\ messages' = messages
       /\ isProcessingRef' <=> (inflight' # <<>>)
       /\ ~isProcessingRef =>
            \A r \in DOMAIN heap : heap'[r] = heap[r]]_vars

\* C20 witness: in the page that shows the pending state, a second send has
\* closed after one part; both flags are off and the content is that part.
C20_Witness ==
    /\ variant = "manual"
    /\ event.op = "settled"
    /\ calls = 2
    /\ event.delivered = <<<<"x">>>>
    /\ heap[event.msg].content = <<"x">>
    /\ ~isProcessingRef
    /\ ~isProcessing
    /\ inflight = <<>>

\* C21: after every step that ends with the processing flag set, one request
\* is open, the transcript ends with a user message followed by the assistant
\* message whose content is what that request has received so far; the user
\* message holds the text of the send that opened the request, and while the
\* flag stays set the transcript keeps its entries and that user message.
C21_PendingEndsWithPlaceholder ==
    [][/\ isProcessingRef' =>
            /\ Len(inflight') = 1
            /\ Len(messages') >= 2
            /\ Transcript'[Len(messages')] =
                   [role |-> "assistant",
                    content |-> inflight'[1].fullResponse]
            /\ Transcript'[Len(messages') - 1].role = "user"
       /\ (event'.op = "handleSend" /\ event'.outcome = "dispatched") =>
            /\ isProcessingRef'
            /\ Transcript'[Len(messages') - 1].content = event'.text
       /\ (isProcessingRef /\ isProcessingRef') =>
            /\ messages' = messages
            /\ Transcript'[Len(messages) - 1] = Transcript[Len(messages) - 1]]_vars

\* C21 witness: a second send is streaming and has received one part; the
\* transcript ends with its user message and the growing assistant message.
C21_Witness ==
    /\ isProcessingRef
    /\ Len(messages) = 4
    /\ Len(inflight) = 1
    /\ inflight[1].phase = "streaming"
    /\ Transcript[3] = [role |-> "user", content |-> <<" ", "a">>]
    /\ Transcript[4] = [role |-> "assistant", content |-> <<"x">>]

\* C22: in the page of part_000 no resend timer is ever pending, and a step
\* that appends to the transcript, opens a request or makes a call is a
\* handleSend run by a user event, which makes exactly one call.
C22_ManualNeverSendsByItself ==
    [][variant = "manual" =>
        /\ ~ResendPending(timers')
        /\ (\/ calls' # calls
            \/ Len(messages') # Len(messages)
            \/ Len(inflight') > Len(inflight)) =>
               /\ event'.op = "handleSend"
               /\ event'.by = "user"
               /\ event'.outcome = "dispatched"
               /\ calls' = calls + 1]_vars

\* C22 witness: in the page of part_000 a send has failed, the re-prompt has
\* run and a key was saved with a draft waiting; nothing is scheduled or sent.
C22_Witness ==
    /\ variant = "manual"
    /\ event.op = "handleKeySave"
    /\ event.outcome = "saved"
    /\ event.provider = selectedProvider
    /\ Trim(message) # <<>>
    /\ calls = 1
    /\ messages # <<>>
    /\ heap[LastRef(messages)].content = ErrorText
    /\ timers = <<>>
    /\ inflight = <<>>

\* the model each provider is called with
FixedModel ==
    [openai |-> "gpt-5-nano", gemini |-> "gemini-2.5-flash", xai |-> "grok-beta"]

CallUsesActiveCredential(by) ==
    (event'.op = "handleSend" /\ event'.by \in by
        /\ event'.outcome = "dispatched") =>
        /\ event'.call.provider = selectedProvider
        /\ event'.call.model = FixedModel[selectedProvider]
        /\ ~Falsy(event'.call.apiKey)
        /\ event'.call.apiKey = apiKeys[selectedProvider]
        /\ event'.call.apiKey = storage[selectedProvider]

\* C23: every call is opened for the provider that is active when handleSend
\* runs, with that provider's fixed model and with a key that is not empty
\* and equals the one held for that provider, in memory and in storage, at
\* that moment.
C23_CallUsesActiveCredential ==
    [][CallUsesActiveCredential({"user", "timer"})]_vars

\* The part of C23 that holds: the same, for the handleSend a user event runs.
C23_UserSubmitCallUsesActiveCredential ==
    [][CallUsesActiveCredential({"user"})]_vars

PromptOpensForMissingKey == Opened => Falsy(apiKeys'[modalProvider'])

\* C24: whenever the dialog goes from closed to open, the provider it is
\* opened for has no key.
C24_PromptOpensForMissingKey == [][PromptOpensForMissingKey]_vars

\* The part of C24 that holds: a handleSend run by a user event opens the
\* dialog only for a provider without a key.
C24_UserSubmitOpensForMissingKey ==
    [][(event'.op = "handleSend" /\ event'.by = "user") =>
        PromptOpensForMissingKey]_vars

\* C25: while the dialog is open, no handleSend and no re-prompt timer
\* changes the provider it is open for.
C25_OpenPromptKeepsTarget ==
    [][(showApiKeyModal /\ modalProvider' # modalProvider) =>
        event'.op \notin {"handleSend", "reprompt"}]_vars

====
